---- MODULE Spec2Model ----
(***************************************************************************)
(* Model of nlgeval/__init__.py: the orchestration layer that selects the  *)
(* metrics to run (NLGEval.load_scorers), shapes hypotheses / references   *)
(* into the indexed mappings the scorers consume, runs every scorer once   *)
(* and flattens the results into one report.                               *)
(*                                                                         *)
(* A Python str is a sequence of one-character strings.  A dict keyed by   *)
(* item index is a function on 0..n-1.  A report (ret_scores) is a         *)
(* function from sub-metric names to scores.  What a scorer writes to      *)
(* stdout (the print calls of compute_metrics) is not part of the state.   *)
(***************************************************************************)
EXTENDS Integers, Sequences, FiniteSets, TLC

VARIABLES
    constructed,      \* outcome of NLGEval.__init__: "none" | "ok" | "error"
    metrics_to_omit,  \* self.metrics_to_omit
    scorers,          \* self.scorers, the Active Metric List
    local_scorers,    \* the local `scorers` of a module-level function
    lists,            \* per metric list: is it alive, and its Meteor's process
    pc,               \* position of the current call
    fn,               \* the function the current call runs
    args,             \* the arguments of the current call
    refs,             \* local refs: item index -> reference strings
    hyps,             \* local hyps: item index -> <<hypothesis>>
    idx,              \* position of the for loop in the metric list (1-based)
    ret_scores,       \* local ret_scores
    log,              \* compute_score / close events of the current call
    passed,           \* the (refs, hyps) pairs handed to compute_score
    result,           \* what the current call returned, if it returned
    error             \* the exception the current call raised, if any

vars == <<constructed, metrics_to_omit, scorers, local_scorers, lists, pc, fn,
          args, refs, hyps, idx, ret_scores, log, passed, result, error>>

----------------------------------------------------------------------------
(* Bounds of the inputs                                                    *)

MaxLines == 2      \* lines per hypothesis / reference source
MaxSources == 2    \* parallel reference sources

----------------------------------------------------------------------------
(* Strings                                                                 *)

\* the characters str.strip() removes, among those the inputs use
Whitespace == {" ", "\t", "\n"}

RECURSIVE LStrip(_)
LStrip(s) ==
    IF s = <<>> THEN s
    ELSE IF Head(s) \in Whitespace THEN LStrip(Tail(s)) ELSE s

RECURSIVE RStrip(_)
RStrip(s) ==
    IF s = <<>> THEN s
    ELSE IF s[Len(s)] \in Whitespace THEN RStrip(SubSeq(s, 1, Len(s) - 1)) ELSE s

\* _strip(s) / s.strip()
Strip(s) == RStrip(LStrip(s))

\* the delimiter '||<|>||' of compute_individual_metrics, as one symbol
Delimiter == "||<|>||"

RECURSIVE Split(_)
\* ref.split('||<|>||')
Split(s) ==
    IF \A p \in 1..Len(s) : s[p] # Delimiter THEN <<s>>
    ELSE LET p == CHOOSE q \in 1..Len(s) :
                      s[q] = Delimiter /\ \A r \in 1..(q - 1) : s[r] # Delimiter
         IN  <<SubSeq(s, 1, p - 1)>> \o Split(SubSeq(s, p + 1, Len(s)))

\* list(map(_strip, xs)) / [a.strip() for a in xs]
StripAll(xs) == [j \in 1..Len(xs) |-> Strip(xs[j])]

----------------------------------------------------------------------------
(* Metric catalog and the omission rule                                    *)

valid_metrics ==
    {"Bleu_1", "Bleu_2", "Bleu_3", "Bleu_4", "METEOR", "ROUGE_L", "CIDEr", "SPICE"}

\* the highest Bleu order: range(1, 4 + 1), Bleu(4)
MaxN == 4

\* 'Bleu_{}'.format(i)
BleuName(i) == <<"Bleu_1", "Bleu_2", "Bleu_3", "Bleu_4", "Bleu_5">>[i]

\* (Bleu(n), ['Bleu_1', ..., 'Bleu_n'])
BleuDescriptor(n) ==
    [scorer |-> "Bleu", n |-> n, isList |-> TRUE,
     method |-> [j \in 1..n |-> BleuName(j)]]

\* (Meteor(), "METEOR") and the like: the method is a bare name; it is kept
\* as a one-element sequence with isList = FALSE
ScalarDescriptor(scorer, name) ==
    [scorer |-> scorer, n |-> 0, isList |-> FALSE, method |-> <<name>>]

\* the literal list of the module-level functions
FullScorers ==
    << BleuDescriptor(MaxN),
       ScalarDescriptor("Meteor", "METEOR"),
       ScalarDescriptor("Rouge", "ROUGE_L"),
       ScalarDescriptor("Cider", "CIDEr"),
       ScalarDescriptor("Spice", "SPICE") >>

TruncatedBleuKeepsOne(i) == <<BleuDescriptor(i)>>

TruncatedBleuNoGuard(i) == <<BleuDescriptor(i - 1)>>

\* if i > 1: append (Bleu(i - 1), ['Bleu_1', ..., 'Bleu_(i-1)'])
TruncatedBleu(i) == IF i > 1 THEN <<BleuDescriptor(i - 1)>> ELSE <<>>

RECURSIVE BleuScanNoBreak(_, _)
BleuScanNoBreak(i, omit) ==
    IF i > MaxN
    THEN IF \A j \in 1..MaxN : BleuName(j) \notin omit
         THEN <<BleuDescriptor(MaxN)>> ELSE <<>>
    ELSE (IF BleuName(i) \in omit THEN TruncatedBleu(i) ELSE <<>>)
             \o BleuScanNoBreak(i + 1, omit)

RECURSIVE BleuScan(_, _)
\* the for loop over i in range(1, 4 + 1) with its break, and the
\* `if not omit_bleu_i` that follows it
BleuScan(i, omit) ==
    IF i > MaxN THEN <<BleuDescriptor(MaxN)>>
    ELSE IF BleuName(i) \in omit THEN TruncatedBleu(i)
    ELSE BleuScan(i + 1, omit)

ScalarIfKept(scorer, name, omit) ==
    IF name \notin omit THEN <<ScalarDescriptor(scorer, name)>> ELSE <<>>

\* the value of self.scorers after load_scorers()
LoadScorers(omit) ==
    BleuScan(1, omit)
        \o ScalarIfKept("Meteor", "METEOR", omit)
        \o ScalarIfKept("Rouge", "ROUGE_L", omit)
        \o ScalarIfKept("Cider", "CIDEr", omit)
        \o ScalarIfKept("Spice", "SPICE", omit)

AcceptAnyOmission(omit) == TRUE

\* assert len(self.metrics_to_omit - self.valid_metrics) == 0
ValidOmission(omit) == Cardinality(omit \ valid_metrics) = 0

----------------------------------------------------------------------------
(* Metric lists and the Meteor process                                     *)

Owners == {"self", "old", "local"}

NoList == [alive |-> "none", meteor |-> "none"]

HasMeteor(l) == \E k \in 1..Len(l) : l[k].scorer = "Meteor"

\* a list just built: constructing Meteor() starts its process
FreshList(l) == [alive |-> "live", meteor |-> IF HasMeteor(l) THEN "open" ELSE "none"]

\* the list is dropped (del scorers, the frame unwinding, self.scorers rebound)
Discard(st) == [st EXCEPT !.alive = IF st.alive = "live" THEN "discarded" ELSE @]

\* scorer.close()
Close(st) == [st EXCEPT !.meteor = "closed"]

----------------------------------------------------------------------------
(* Shaping and flattening                                                  *)

EmptyMap == [x \in {} |-> 0]

Min(S) == CHOOSE x \in S : \A y \in S : x <= y

ZipUntransposed(ref_list) == ref_list

\* zip(*ref_list): as many rows as the shortest source has lines
Zip(ref_list) ==
    LET k == Len(ref_list)
        n == IF k = 0 THEN 0 ELSE Min({Len(ref_list[j]) : j \in 1..k})
    IN  [i \in 1..n |-> [j \in 1..k |-> ref_list[j][i]]]

\* {idx: x for (idx, x) in enumerate(xs)}
Enumerate(xs) == [i \in 0..(Len(xs) - 1) |-> xs[i + 1]]

\* refs of the batch functions
BatchRefs(ref_list) ==
    LET rows == Zip(ref_list)
    IN  Enumerate([i \in 1..Len(rows) |-> StripAll(rows[i])])

\* hyps of the batch functions
BatchHyps(hyp_list) == Enumerate([i \in 1..Len(hyp_list) |-> <<Strip(hyp_list[i])>>])

AlignedAlways(r, h) == TRUE

\* assert len(refs) == len(hyps)
Aligned(r, h) == Cardinality(DOMAIN r) = Cardinality(DOMAIN h)

\* ret[m] = sc
Put(ret, m, sc) == (m :> sc) @@ ret

RECURSIVE ZipInto(_, _, _, _)
\* for sc, m in zip(score, method): ret_scores[m] = sc
ZipInto(ret, score, method, k) ==
    IF k > Len(score) \/ k > Len(method) THEN ret
    ELSE ZipInto(Put(ret, method[k], score[k]), score, method, k + 1)

FlattenFirstOnly(ret, score, d) == Put(ret, d.method[1], score[1])

\* the body of the for loop after compute_score returned
Flatten(ret, score, d) ==
    IF d.isList THEN ZipInto(ret, score, d.method, 1)
    ELSE Put(ret, d.method[1], score[1])

\* scorer.compute_score(refs, hyps)[0]: one score per declared sub-metric;
\* a scalar score is kept as a one-element sequence.  The numbers are the
\* scorers' business: a score is named by the scorer and the position.
ComputeScore(d) ==
    IF d.scorer = "Bleu" THEN [k \in 1..d.n |-> [by |-> "Bleu", k |-> k]]
    ELSE <<[by |-> d.scorer, k |-> 0]>>

----------------------------------------------------------------------------
(* Arguments                                                               *)

\* metrics_to_omit=None
NoneArg == [isNone |-> TRUE, val |-> {}]

OmitArg(S) == [isNone |-> FALSE, val |-> S]

\* a str argument, a list-of-str argument, and an argument that is neither
StrArg(s) == [isStr |-> TRUE, str |-> s, list |-> <<>>]
ListArg(l) == [isStr |-> FALSE, str |-> <<>>, list |-> l]
NotAStr == [isStr |-> FALSE, str |-> <<>>, list |-> <<>>]

NoArgs == [ref |-> NotAStr, hyp |-> NotAStr, ref_list |-> <<>>, hyp_list |-> <<>>]

NoResult == [returned |-> FALSE, report |-> EmptyMap]

ModuleLevel == {"compute_metrics", "compute_individual_metrics"}
Methods == {"NLGEval.compute_metrics", "NLGEval.compute_individual_metrics"}
Batch == {"compute_metrics", "NLGEval.compute_metrics"}
SinglePair == {"compute_individual_metrics", "NLGEval.compute_individual_metrics"}

\* no call is running
Quiescent == pc \in {"idle", "returned", "raised"}

\* the metric list the running call iterates
CurScorers == IF fn \in ModuleLevel THEN local_scorers ELSE scorers

----------------------------------------------------------------------------
Init ==
    /\ constructed = "none"
    /\ metrics_to_omit = {}
    /\ scorers = <<>>
    /\ local_scorers = <<>>
    /\ lists = [o \in Owners |-> NoList]
    /\ pc = "idle"
    /\ fn = "none"
    /\ args = NoArgs
    /\ refs = EmptyMap
    /\ hyps = EmptyMap
    /\ idx = 0
    /\ ret_scores = EmptyMap
    /\ log = <<>>
    /\ passed = {}
    /\ result = NoResult
    /\ error = "none"

callVars == <<pc, fn, args, refs, hyps, idx, ret_scores, log, passed, result, error>>

\* self.scorers = [] ... : the list self.scorers held is dropped, a new one built
RebindScorers(omit) ==
    /\ scorers' = LoadScorers(omit)
    /\ lists' = [lists EXCEPT !["old"] = Discard(lists["self"]),
                              !["self"] = FreshList(LoadScorers(omit))]

\* NLGEval(metrics_to_omit=a)
NLGEval_init(a) ==
    /\ constructed = "none"
    /\ Quiescent
    /\ LET omit == IF a.isNone THEN {} ELSE a.val
       IN  /\ metrics_to_omit' = omit
           /\ IF ValidOmission(omit)
              THEN /\ constructed' = "ok"
                   /\ RebindScorers(omit)
              ELSE /\ constructed' = "error"
                   /\ UNCHANGED <<scorers, lists>>
    /\ UNCHANGED <<local_scorers, callVars>>

\* a further self.load_scorers() on a constructed evaluator
load_scorers ==
    /\ constructed = "ok"
    /\ Quiescent
    /\ RebindScorers(metrics_to_omit)
    /\ UNCHANGED <<constructed, metrics_to_omit, local_scorers, callVars>>

\* the state of a call that has just been entered
Enter(f, a) ==
    /\ fn' = f
    /\ args' = a
    /\ ret_scores' = EmptyMap
    /\ log' = <<>>
    /\ passed' = {}
    /\ result' = NoResult

\* an assert of the prologue failed
FailAssert ==
    /\ pc' = "raised"
    /\ error' = "AssertionError"
    /\ idx' = 0

\* the prologue is done: the for loop starts
StartLoop ==
    /\ pc' = "loop"
    /\ error' = "none"
    /\ idx' = 1

\* NLGEval.compute_individual_metrics(ref, hyp), up to the for loop;
\* ref is a list of str
NLGEval_compute_individual_metrics(ref, hyp) ==
    /\ constructed = "ok"
    /\ Quiescent
    /\ Enter("NLGEval.compute_individual_metrics",
             [NoArgs EXCEPT !.ref = ref, !.hyp = hyp])
    /\ IF ~hyp.isStr
       THEN /\ FailAssert
            /\ refs' = EmptyMap
            /\ hyps' = EmptyMap
       ELSE /\ refs' = (0 :> StripAll(ref.list))
            /\ hyps' = (0 :> <<Strip(hyp.str)>>)
            /\ StartLoop
    /\ UNCHANGED <<constructed, metrics_to_omit, scorers, local_scorers, lists>>

\* NLGEval.compute_metrics(ref_list, hyp_list), up to the for loop
NLGEval_compute_metrics(ref_list, hyp_list) ==
    /\ constructed = "ok"
    /\ Quiescent
    /\ Enter("NLGEval.compute_metrics",
             [NoArgs EXCEPT !.ref_list = ref_list, !.hyp_list = hyp_list])
    /\ refs' = BatchRefs(ref_list)
    /\ hyps' = BatchHyps(hyp_list)
    /\ IF Aligned(BatchRefs(ref_list), BatchHyps(hyp_list))
       THEN StartLoop
       ELSE FailAssert
    /\ UNCHANGED <<constructed, metrics_to_omit, scorers, local_scorers, lists>>

\* scorers = [(Bleu(4), ...), (Meteor(), "METEOR"), ...] of a module-level
\* function; the list of the previous call is long gone
BuildLocal ==
    /\ local_scorers' = FullScorers
    /\ lists' = [lists EXCEPT !["local"] = FreshList(FullScorers)]

NoLocal ==
    /\ local_scorers' = <<>>
    /\ lists' = [lists EXCEPT !["local"] = NoList]

\* compute_metrics(hypothesis, references), up to the for loop; the
\* arguments are the lines readlines() gave for each file
compute_metrics(ref_list, hyp_list) ==
    /\ Quiescent
    /\ Enter("compute_metrics",
             [NoArgs EXCEPT !.ref_list = ref_list, !.hyp_list = hyp_list])
    /\ refs' = BatchRefs(ref_list)
    /\ hyps' = BatchHyps(hyp_list)
    /\ IF Aligned(BatchRefs(ref_list), BatchHyps(hyp_list))
       THEN StartLoop /\ BuildLocal
       ELSE FailAssert /\ NoLocal
    /\ UNCHANGED <<constructed, metrics_to_omit, scorers>>

\* compute_individual_metrics(ref, hyp), up to the for loop; ref is a str
\* (split at the delimiter) or a list of str
compute_individual_metrics(ref, hyp) ==
    /\ Quiescent
    /\ Enter("compute_individual_metrics",
             [NoArgs EXCEPT !.ref = ref, !.hyp = hyp])
    /\ IF ~hyp.isStr
       THEN /\ FailAssert /\ NoLocal
            /\ refs' = EmptyMap
            /\ hyps' = EmptyMap
       ELSE /\ refs' = (0 :> StripAll(IF ref.isStr THEN Split(ref.str) ELSE ref.list))
            /\ hyps' = (0 :> <<Strip(hyp.str)>>)
            /\ StartLoop /\ BuildLocal
    /\ UNCHANGED <<constructed, metrics_to_omit, scorers>>

Event(e, d) == [ev |-> e, scorer |-> d.scorer]

\* for scorer, method in scorers: scorer.compute_score(refs, hyps) is entered
CallScore ==
    /\ pc = "loop"
    /\ idx <= Len(CurScorers)
    /\ pc' = "scoring"
    /\ log' = Append(log, Event("call", CurScorers[idx]))
    /\ passed' = passed \cup {<<refs, hyps>>}
    /\ UNCHANGED <<constructed, metrics_to_omit, scorers, local_scorers, lists,
                   fn, args, refs, hyps, idx, ret_scores, result, error>>

SkipOne(i) == i + 2

\* the for loop moves to the next descriptor
Advance(i) == i + 1

\* compute_score returned: the rest of the loop body.  A module-level
\* function closes the Meteor scorer right after its scores are stored.
ReturnScore ==
    /\ pc = "scoring"
    /\ LET d == CurScorers[idx]
           closes == fn \in ModuleLevel /\ d.scorer = "Meteor"
       IN  /\ ret_scores' = Flatten(ret_scores, ComputeScore(d), d)
           /\ log' = log \o <<Event("ret", d)>>
                         \o (IF closes THEN <<Event("close", d)>> ELSE <<>>)
           /\ lists' = IF closes THEN [lists EXCEPT !["local"] = Close(@)] ELSE lists
    /\ idx' = Advance(idx)
    /\ pc' = "loop"
    /\ UNCHANGED <<constructed, metrics_to_omit, scorers, local_scorers,
                   fn, args, refs, hyps, passed, result, error>>

SwallowFailure == [pc |-> "loop", error |-> "none", step |-> 1]

\* nothing around compute_score catches: an exception leaves the function
ScoreFailure == [pc |-> "raised", error |-> "MetricError", step |-> 0]

\* compute_score raised: the exception unwinds the frame, and with it a
\* module-level function's local list
RaiseScore ==
    /\ pc = "scoring"
    /\ log' = Append(log, Event("raise", CurScorers[idx]))
    /\ pc' = ScoreFailure.pc
    /\ error' = ScoreFailure.error
    /\ idx' = idx + ScoreFailure.step
    /\ IF fn \in ModuleLevel /\ ScoreFailure.pc = "raised"
       THEN /\ lists' = [lists EXCEPT !["local"] = Discard(@)]
            /\ local_scorers' = <<>>
       ELSE UNCHANGED <<lists, local_scorers>>
    /\ UNCHANGED <<constructed, metrics_to_omit, scorers,
                   fn, args, refs, hyps, ret_scores, passed, result>>

\* the loop is exhausted: (del scorers and) return ret_scores
Return ==
    /\ pc = "loop"
    /\ idx > Len(CurScorers)
    /\ pc' = "returned"
    /\ result' = [returned |-> TRUE, report |-> ret_scores]
    /\ IF fn \in ModuleLevel
       THEN /\ lists' = [lists EXCEPT !["local"] = Discard(@)]
            /\ local_scorers' = <<>>
       ELSE UNCHANGED <<lists, local_scorers>>
    /\ UNCHANGED <<constructed, metrics_to_omit, scorers,
                   fn, args, refs, hyps, idx, ret_scores, log, passed, error>>

----------------------------------------------------------------------------
(* Inputs                                                                  *)

\* every omission set over the catalog and one unknown name
OmitArgs == {NoneArg} \cup {OmitArg(S) : S \in SUBSET (valid_metrics \cup {"BLEU"})}

LineA == <<" ", "a", " ", "b", "\n">>
LineB == <<"c", "\t">>
LineBlank == <<" ", "\n">>

\* single-pair arguments
RefArgs == {ListArg(<<LineA>>), ListArg(<<LineB, LineA>>)}
RefStrArgs == {StrArg(<<"a", " ", Delimiter, " ", "b">>), StrArg(<<"a">>)}
HypArgs == {StrArg(LineA), NotAStr}

\* a few corpora: aligned, misaligned, sources of unequal length
SmallCorpora ==
    { <<(<<  <<LineA, LineB>>, <<LineB, LineBlank>>  >>), <<LineB, LineA>>>>,
      <<(<<  <<LineA, LineB>>  >>), <<LineA>>>>,
      <<(<<  <<LineA>>, <<LineB, LineA>>  >>), <<LineB>>>> }

Letters == <<"a", "b", "c", "d", "e">>
Digits == <<"1", "2", "3", "4", "5">>

\* line i of reference file j, as readlines() gives it: every line of a
\* corpus is a different text, with whitespace on either side
RefLine(j, i) ==
    (IF i % 2 = 0 THEN <<" ">> ELSE <<>>)
        \o <<Letters[j], " ", Digits[i]>>
        \o (IF j % 2 = 0 THEN <<"\t", "\n">> ELSE <<"\n">>)

\* line i of the hypothesis file
HypLine(i) ==
    (IF i % 2 = 1 THEN <<"\t", " ">> ELSE <<>>) \o <<"h", " ", Digits[i], "\n">>

\* every corpus shape: at most MaxSources reference files of at most
\* MaxLines lines each (not all of one length), and a hypothesis file of
\* at most MaxLines lines
HypLists == {[i \in 1..n |-> HypLine(i)] : n \in 0..MaxLines}
RefLists ==
    UNION { {[j \in 1..k |-> [i \in 1..lens[j] |-> RefLine(j, i)]] :
                lens \in [1..k -> 0..MaxLines]} : k \in 0..MaxSources }

Next ==
    \/ \E a \in OmitArgs : NLGEval_init(a)
    \/ load_scorers
    \/ \E r \in RefArgs, h \in HypArgs : NLGEval_compute_individual_metrics(r, h)
    \/ \E c \in SmallCorpora : NLGEval_compute_metrics(c[1], c[2])
    \/ \E r \in RefArgs \cup RefStrArgs, h \in HypArgs : compute_individual_metrics(r, h)
    \/ \E c \in SmallCorpora : compute_metrics(c[1], c[2])
    \/ CallScore
    \/ ReturnScore
    \/ RaiseScore
    \/ Return

Spec == Init /\ [][Next]_vars

\* batch evaluation over every bounded corpus, on a default evaluator and
\* on one with a truncated list
AlignOmitArgs == {NoneArg, OmitArg({"Bleu_3", "METEOR", "SPICE"})}


NextAlign ==
    \/ \E a \in AlignOmitArgs : NLGEval_init(a)
    \/ \E rl \in RefLists, hl \in HypLists : NLGEval_compute_metrics(rl, hl)
    \/ \E rl \in RefLists, hl \in HypLists : compute_metrics(rl, hl)
    \/ CallScore
    \/ ReturnScore
    \/ RaiseScore
    \/ Return

SpecAlign == Init /\ [][NextAlign]_vars

----------------------------------------------------------------------------
(* Properties                                                              *)

Tiers == <<"Bleu_1", "Bleu_2", "Bleu_3", "Bleu_4">>
Scalars == {"METEOR", "ROUGE_L", "CIDEr", "SPICE"}
Catalog == {Tiers[t] : t \in 1..4} \cup Scalars

Range(f) == {f[x] : x \in DOMAIN f}

\* the names lists of the vector descriptors of a metric list, in order
VectorMethods(l) ==
    LET v == SelectSeq(l, LAMBDA d : d.isList)
    IN  [k \in 1..Len(v) |-> v[k].method]

\* the names of the scalar descriptors of a metric list, in order
ScalarMethods(l) ==
    LET v == SelectSeq(l, LAMBDA d : ~d.isList)
    IN  [k \in 1..Len(v) |-> v[k].method[1]]

\* every sub-metric name a metric list declares
DeclaredNames(l) == UNION {Range(l[k].method) : k \in 1..Len(l)}

\* the events of one kind in the log
EventsOf(kind) == SelectSeq(log, LAMBDA e : e.ev = kind)

ScorersOf(events) == [k \in 1..Len(events) |-> events[k].scorer]

\* t is s without its leading and trailing whitespace
IsTrimOf(t, s) ==
    \E a \in 0..Len(s), b \in 0..Len(s) :
        /\ a <= b
        /\ t = SubSeq(s, a + 1, b)
        /\ \A p \in 1..a : s[p] \in Whitespace
        /\ \A p \in (b + 1)..Len(s) : s[p] \in Whitespace
        /\ t # <<>> => (t[1] \notin Whitespace /\ t[Len(t)] \notin Whitespace)

\* the number of positions every reference source has a line at
RefSetCount(rl) ==
    IF rl = <<>> THEN 0
    ELSE Cardinality({i \in 1..Len(rl[1]) : \A j \in 1..Len(rl) : i <= Len(rl[j])})

\* C1: an evaluator built with metrics_to_omit = {Bleu_i} alone, i in 1..4,
\* has one vector descriptor declaring exactly Bleu_1..Bleu_(i-1) (none when
\* i = 1) and the four scalar metrics METEOR, ROUGE_L, CIDEr, SPICE.
C1_OmissionCascade ==
    \A i \in 1..4 :
        (constructed = "ok" /\ metrics_to_omit = {Tiers[i]}) =>
            /\ VectorMethods(scorers) =
                   (IF i = 1 THEN <<>> ELSE <<SubSeq(Tiers, 1, i - 1)>>)
            /\ ScalarMethods(scorers) = <<"METEOR", "ROUGE_L", "CIDEr", "SPICE">>

C1_Witness ==
    /\ constructed = "ok"
    /\ metrics_to_omit = {"Bleu_3"}
    /\ lists["self"].alive = "live"

\* C2: an omission set with a name outside the catalog makes the constructor
\* raise: the evaluator is never constructed, its metric list is never built
\* and none of its methods ever runs a scorer.
C2_UnrecognizedRejected ==
    /\ (constructed # "none" /\ metrics_to_omit \ Catalog # {}) => constructed = "error"
    /\ constructed = "error" =>
           /\ scorers = <<>>
           /\ lists["self"] = NoList
           /\ lists["old"] = NoList
           /\ fn \notin Methods

C2_Witness ==
    /\ constructed = "error"
    /\ metrics_to_omit = {"BLEU", "Bleu_2", "CIDEr"}

\* C3: a report NLGEval.compute_individual_metrics returns from a non-empty
\* metric list has exactly the declared sub-metric names as its keys.
C3_ReportCompleteness ==
    (/\ fn = "NLGEval.compute_individual_metrics"
     /\ result.returned
     /\ scorers # <<>>) =>
        DOMAIN result.report = DeclaredNames(scorers)

C3_Witness ==
    /\ fn = "NLGEval.compute_individual_metrics"
    /\ result.returned
    /\ metrics_to_omit = {"Bleu_3", "METEOR", "CIDEr", "SPICE"}
    /\ DOMAIN result.report = {"Bleu_1", "Bleu_2", "ROUGE_L"}

\* C4: a batch call whose hypothesis count differs from its reference-set
\* count raises the assertion error, and no compute_score was entered.
C4_AlignmentSize ==
    (fn \in Batch /\ Len(args.hyp_list) # RefSetCount(args.ref_list)) =>
        /\ pc = "raised"
        /\ error = "AssertionError"
        /\ log = <<>>
        /\ passed = {}
        /\ ~result.returned

C4_Witness ==
    /\ fn = "NLGEval.compute_metrics"
    /\ pc = "raised"
    /\ error = "AssertionError"
    /\ Len(args.hyp_list) = 2
    /\ Len(args.ref_list) = 2
    /\ Len(args.ref_list[1]) = 2
    /\ Len(args.ref_list[2]) = 1

\* C5: no metric list is discarded while its Meteor scorer is still open:
\* close ran before the discard, on every exit path.
C5_ReleaseOnEveryExit ==
    \A o \in Owners : lists[o].alive = "discarded" => lists[o].meteor # "open"

\* C6: the calls of compute_score never overlap, and a call of an evaluator
\* method that returned has entered compute_score once per descriptor, in
\* the order of the metric list, which is Bleu, Meteor, Rouge, Cider, Spice.
C6_OncePerMetricInOrder ==
    LET order == <<"Bleu", "Meteor", "Rouge", "Cider", "Spice">>
        rank(x) == CHOOSE r \in 1..5 : order[r] = x
        run == SelectSeq(log, LAMBDA e : e.ev # "close")
    IN  /\ \A p \in 1..Len(run) :
               IF p % 2 = 1 THEN run[p].ev = "call"
               ELSE run[p].ev \in {"ret", "raise"} /\ run[p].scorer = run[p - 1].scorer
        /\ (fn \in Methods /\ pc = "returned") =>
               /\ ScorersOf(EventsOf("call")) = [k \in 1..Len(scorers) |-> scorers[k].scorer]
               /\ ScorersOf(EventsOf("ret")) = ScorersOf(EventsOf("call"))
               /\ \A k \in 1..(Len(scorers) - 1) :
                      rank(scorers[k].scorer) < rank(scorers[k + 1].scorer)

C6_Witness ==
    /\ fn = "NLGEval.compute_metrics"
    /\ pc = "returned"
    /\ Len(scorers) = 5
    /\ Len(log) = 10

\* C7: a call in which a compute_score raised ends with that error, runs no
\* further scorer and returns no report; a report is returned only when
\* every metric of the list has contributed.
C7_NoPartialReport ==
    LET raises == EventsOf("raise")
    IN  /\ pc = "raised" => ~result.returned
        /\ raises # <<>> =>
               /\ pc = "raised"
               /\ error = "MetricError"
               /\ Len(raises) = 1
               /\ log[Len(log)].ev = "raise"
        /\ (pc = "raised" /\ error = "MetricError") => raises # <<>>
        /\ (result.returned /\ fn \in Methods) =>
               /\ pc = "returned"
               /\ Len(EventsOf("ret")) = Len(scorers)
               /\ DOMAIN result.report = DeclaredNames(scorers)

C7_Witness ==
    /\ fn = "NLGEval.compute_individual_metrics"
    /\ pc = "raised"
    /\ error = "MetricError"
    /\ idx = 3
    /\ DOMAIN ret_scores = {"Bleu_1", "Bleu_2", "Bleu_3", "Bleu_4", "METEOR"}
    /\ ~result.returned

\* C8: with Bleu_1 and the four scalar metrics omitted the metric list is
\* empty, and single-pair evaluation of a str hypothesis runs no scorer,
\* raises nothing and returns the empty report.
C8_EmptyListEmptyReport ==
    (/\ fn = "NLGEval.compute_individual_metrics"
     /\ ({"Bleu_1"} \cup Scalars) \subseteq metrics_to_omit
     /\ args.hyp.isStr) =>
        /\ scorers = <<>>
        /\ error = "none"
        /\ log = <<>>
        /\ passed = {}
        /\ pc \in {"loop", "returned"}
        /\ pc = "loop" => (idx > Len(scorers) /\ ENABLED Return)
        /\ pc = "returned" => result = [returned |-> TRUE, report |-> EmptyMap]

C8_Witness ==
    /\ fn = "NLGEval.compute_individual_metrics"
    /\ metrics_to_omit = {"Bleu_1", "Bleu_3"} \cup Scalars
    /\ pc = "returned"
    /\ result.returned
    /\ result.report = EmptyMap

\* C9: when the omission set names vector tiers, the lowest of them, m,
\* decides: the list declares exactly Bleu_1..Bleu_(m-1) (no vector
\* descriptor when m = 1), so no tier at or above a named one is declared;
\* and no omitted name is ever declared.
C9_LowestTierWins ==
    constructed = "ok" =>
        LET named == {t \in 1..4 : Tiers[t] \in metrics_to_omit}
        IN  /\ DeclaredNames(scorers) \cap metrics_to_omit = {}
            /\ named # {} =>
                   LET m == CHOOSE t \in named : \A u \in named : t <= u
                   IN  /\ VectorMethods(scorers) =
                               (IF m = 1 THEN <<>> ELSE <<SubSeq(Tiers, 1, m - 1)>>)
                       /\ \A t \in named : \A u \in t..4 :
                              Tiers[u] \notin DeclaredNames(scorers)

C9_Witness ==
    /\ constructed = "ok"
    /\ metrics_to_omit = {"Bleu_2", "Bleu_4", "ROUGE_L"}
    /\ DeclaredNames(scorers) = {"Bleu_1", "METEOR", "CIDEr", "SPICE"}

\* C10: the mappings a batch call hands to a scorer have the item indices
\* 0..n-1 as keys, both of them; refs[i] is the trimmed line i of every
\* reference source, in source order, and hyps[i] holds the trimmed
\* hypothesis i alone.
C10_CorpusAlignment ==
    fn \in Batch =>
        \A c \in passed :
            LET r == c[1]
                h == c[2]
                rl == args.ref_list
                hl == args.hyp_list
                keys == 0..(Len(hl) - 1)
            IN  /\ DOMAIN r = keys
                /\ DOMAIN h = keys
                /\ \A i \in keys :
                       /\ DOMAIN r[i] = 1..Len(rl)
                       /\ \A j \in 1..Len(rl) :
                              /\ i + 1 <= Len(rl[j])
                              /\ IsTrimOf(r[i][j], rl[j][i + 1])
                       /\ DOMAIN h[i] = 1..1
                       /\ IsTrimOf(h[i][1], hl[i + 1])

C10_Witness ==
    /\ fn = "compute_metrics"
    /\ pc = "returned"
    /\ passed # {}
    /\ Len(args.hyp_list) = 2
    /\ Len(args.ref_list) = 2
    /\ Len(args.ref_list[2]) = 2

====
